---- MODULE Spec2Model ----
(***************************************************************************)
(* The webhook relay of heroku_webhook_server.py: POST /webhook normalizes *)
(* an inbound body, enriches it with receipt metadata, forwards it once to *)
(* LOCAL_SERVER_URL/webhook and acknowledges the caller.                   *)
(*                                                                         *)
(* A request body is a text, modelled as a sequence of chunks; its text is *)
(* the concatenation of the chunks.  A header value is modelled the same   *)
(* way.  Python values are records [kind, text, items]: kind is "number",  *)
(* "string" or "dict"; items is the mapping of a dict.                     *)
(***************************************************************************)
EXTENDS Integers, Sequences, FiniteSets, TLC

\* ------------------------------------------------------------------ bounds

\* Longest request body, in chunks.
MaxLen == 3

\* Worker threads of the hosting HTTP layer that may run the handler at once.
NumHandlers == 2

\* Cap on the downstream POSTs counted for one request.
MaxPosts == 2

Handlers == 1..NumHandlers

\* ------------------------------------------------------------------ inputs

Chunks == {"{", "}", "\"a\":1", "\"client_ip\":1", "1", "&", "=", "hello world"}

Bodies == UNION {[1..n -> Chunks] : n \in 0..MaxLen}

CtJson == <<"application/json">>
CtJsonLines == <<"application/json", "l">>
CtForm == <<"application/x-www-form-urlencoded">>
CtText == <<"text/plain">>

ContentTypes == {CtJson, CtJsonLines, CtForm, CtText}

\* The X-Forwarded-For header: absent, or the address a proxy reports.
NoHeader == <<>>
ForwardedFors == {NoHeader, <<"203.0.113.7">>}

RemoteAddr == "10.1.2.3"

Requests(bodies) ==
    [content_type : ContentTypes, forwarded_for : ForwardedFors,
     remote_addr : {RemoteAddr}, body : bodies]

\* What the downstream endpoint does with one POST: it answers with a status
\* code, it refuses the connection, or it stays silent.
StatusCodes == {200, 201, 500}

Answers(code) == [kind |-> "answers", status_code |-> code]
Refuses == [kind |-> "refuses", status_code |-> 0]
Silent == [kind |-> "silent", status_code |-> 0]

DownstreamBehaviours == {Answers(c) : c \in StatusCodes} \cup {Refuses, Silent}

\* The environment's LOCAL_SERVER_URL: unset (the default is used) or set.
DefaultUrl == "http://localhost:8081"
EnvUrls == {"", "https://relay.example"}

\* ------------------------------------------------------------------ values

Number(t) == [kind |-> "number", text |-> t, items |-> <<>>]
String(t) == [kind |-> "string", text |-> t, items |-> <<>>]
Dict(f) == [kind |-> "dict", text |-> "", items |-> f]

EmptyItems == <<>>

\* d[k] = v on a Python dict's items.
SetItem(f, k, v) == [x \in (DOMAIN f) \cup {k} |-> IF x = k THEN v ELSE f[x]]

RECURSIVE Text(_)
\* The text a sequence of chunks stands for.
Text(s) == IF s = <<>> THEN "" ELSE Head(s) \o Text(Tail(s))

\* ------------------------------------------------------------------ JSON

Lexeme(k, t) == [kind |-> k, text |-> t]

\* The JSON lexemes of one chunk; "bad" is a character sequence no JSON
\* lexeme starts with.
ChunkLex(c) ==
    CASE c = "{" -> <<Lexeme("punct", "{")>>
      [] c = "}" -> <<Lexeme("punct", "}")>>
      [] c = "\"a\":1" ->
            <<Lexeme("str", "a"), Lexeme("punct", ":"), Lexeme("num", "1")>>
      [] c = "\"client_ip\":1" ->
            <<Lexeme("str", "client_ip"), Lexeme("punct", ":"), Lexeme("num", "1")>>
      [] c = "1" -> <<Lexeme("num", "1")>>
      [] c = "hello world" -> <<Lexeme("bad", "hello"), Lexeme("bad", "world")>>
      [] OTHER -> <<Lexeme("bad", c)>>

\* Lexemes of a text a followed by a text b: digits that meet form one number.
LexJoin(a, b) ==
    IF a # <<>> /\ b # <<>> /\ a[Len(a)].kind = "num" /\ b[1].kind = "num"
    THEN SubSeq(a, 1, Len(a) - 1)
            \o <<Lexeme("num", a[Len(a)].text \o b[1].text)>> \o Tail(b)
    ELSE a \o b

RECURSIVE Lex(_)
Lex(body) ==
    IF body = <<>> THEN <<>> ELSE LexJoin(ChunkLex(Head(body)), Lex(Tail(body)))

Scalar(lx) == IF lx.kind = "num" THEN Number(lx.text) ELSE String(lx.text)

IsMember(ms) ==
    /\ Len(ms) >= 3
    /\ ms[1].kind = "str"
    /\ ms[2] = Lexeme("punct", ":")
    /\ ms[3].kind \in {"num", "str"}

RECURSIVE MembersOk(_)
\* ms is member ("," member)*.
MembersOk(ms) ==
    /\ IsMember(ms)
    /\ \/ Len(ms) = 3
       \/ /\ Len(ms) > 4
          /\ ms[4] = Lexeme("punct", ",")
          /\ MembersOk(SubSeq(ms, 5, Len(ms)))

RECURSIVE MembersItems(_)
\* The items of a member list; a repeated key keeps its last value.
MembersItems(ms) ==
    IF Len(ms) < 3 THEN EmptyItems
    ELSE LET rest == MembersItems(SubSeq(ms, 5, Len(ms)))
         IN  IF ms[1].text \in DOMAIN rest THEN rest
             ELSE SetItem(rest, ms[1].text, Scalar(ms[3]))

Failed == [ok |-> FALSE, value |-> Number("")]
Parsed(v) == [ok |-> TRUE, value |-> v]

\* json.loads on the text of body.
JsonLoads(body) ==
    LET lx == Lex(body)
        n == Len(lx)
    IN  IF n = 1 /\ lx[1].kind \in {"num", "str"} THEN Parsed(Scalar(lx[1]))
        ELSE IF n >= 2 /\ lx[1] = Lexeme("punct", "{") /\ lx[n] = Lexeme("punct", "}")
        THEN LET ms == SubSeq(lx, 2, n - 1)
             IN  IF ms = <<>> THEN Parsed(Dict(EmptyItems))
                 ELSE IF MembersOk(ms) THEN Parsed(Dict(MembersItems(ms)))
                 ELSE Failed
        ELSE Failed

\* ------------------------------------------------------------- the request

\* 'application/json' in content_type (line 49), on the parts of the value.
ContainsJson(ct) == \E i \in 1..Len(ct) : ct[i] = "application/json"

\* request.mimetype: the content type without its parameters.
MimeType(ct) == Text(ct)

\* request.is_json, which get_json() requires.
IsJson(ct) == MimeType(ct) = "application/json"

Returned(v) == [raised |-> FALSE, exc |-> "", value |-> v]
Raised(e) == [raised |-> TRUE, exc |-> e, value |-> Number("")]

\* get_json() with its parse failure absorbed into the fallback wrapping.
GetJsonFallback(req) ==
    LET r == JsonLoads(req.body)
    IN  IF r.ok THEN Returned(r.value)
        ELSE Returned(Dict(SetItem(EmptyItems, "message", String(Text(req.body)))))

\* request.get_json(): the body parsed as JSON; it raises on a mimetype that
\* is not JSON (415) and on a body that is not JSON (400).
GetJson(req) ==
    IF ~IsJson(req.content_type) THEN Raised("415 Unsupported Media Type")
    ELSE LET r == JsonLoads(req.body)
         IN  IF r.ok THEN Returned(r.value) ELSE Raised("400 Bad Request")

\* The position of the first chunk c in s, or Len(s) + 1.
RECURSIVE IndexOf(_, _)
IndexOf(s, c) ==
    IF s = <<>> \/ Head(s) = c THEN 1 ELSE 1 + IndexOf(Tail(s), c)

RECURSIVE FormFields(_)
\* The fields of a urlencoded body, in order: the text is split at "&", an
\* empty piece is no field, and a piece is split at its first "=".
FormFields(body) ==
    IF body = <<>> THEN <<>>
    ELSE LET i == IndexOf(body, "&")
             piece == SubSeq(body, 1, i - 1)
             rest == FormFields(SubSeq(body, i + 1, Len(body)))
             j == IndexOf(piece, "=")
             field == [key |-> Text(SubSeq(piece, 1, j - 1)),
                       value |-> Text(SubSeq(piece, j + 1, Len(piece)))]
         IN  IF piece = <<>> THEN rest ELSE <<field>> \o rest

RECURSIVE FirstValues(_)
\* MultiDict.to_dict(): each key with its first value.
FirstValues(fields) ==
    IF fields = <<>> THEN EmptyItems
    ELSE SetItem(FirstValues(Tail(fields)), Head(fields).key,
                 String(Head(fields).value))

\* Whether request.form reads the body: only a form mimetype is parsed.
FormParsed(req) == MimeType(req.content_type) = "application/x-www-form-urlencoded"

\* request.form.to_dict() (line 53).
FormToDict(req) ==
    IF FormParsed(req) THEN FirstValues(FormFields(req.body)) ELSE EmptyItems

\* request.get_data(as_text=True) (line 56), called after request.form: form
\* parsing reads the input stream and does not cache it, so nothing is left
\* of a body that was parsed as a form.
RawData(req) == IF FormParsed(req) THEN <<>> ELSE req.body

\* Lines 47-60: the inbound body as webhook_data, or the exception raised.
Normalized(req) ==
    IF ContainsJson(req.content_type) THEN GetJson(req)
    ELSE LET form == FormToDict(req)
             raw_data == RawData(req)
             loaded == JsonLoads(raw_data)
         IN  IF form # EmptyItems THEN Returned(Dict(form))
             ELSE IF loaded.ok THEN Returned(loaded.value)
             ELSE Returned(Dict(SetItem(EmptyItems, "message", String(Text(raw_data)))))

\* Line 41: request.headers.get('X-Forwarded-For', request.remote_addr).
ClientIp(req) ==
    IF req.forwarded_for = NoHeader THEN req.remote_addr ELSE req.forwarded_for[1]

\* ---------------------------------------------------------------- the clock

\* time.time() at a receipt, as its text.
Times == {"1762249200.0"}

\* time.strftime('%Y-%m-%d %H:%M:%S UTC') at that time.
StrfTime(t) == CASE t = "1762249200.0" -> "2026-11-04 09:40:00 UTC"

\* Enrichment that builds a new mapping of the three fields alone.
EnrichedFresh(items, t, ip) ==
    SetItem(SetItem(SetItem(EmptyItems, "heroku_received_at", Number(t)),
                    "heroku_timestamp", String(StrfTime(t))),
            "client_ip", String(ip))

\* Lines 63-65: the three item assignments on webhook_data's items.
Enriched(items, t, ip) ==
    SetItem(SetItem(SetItem(items, "heroku_received_at", Number(t)),
                    "heroku_timestamp", String(StrfTime(t))),
            "client_ip", String(ip))

\* ------------------------------------------------------------- forwarding

\* The timeout of the downstream POST, in seconds.
PostTimeout == 10

\* Lines 75-80: the downstream POST.
PostCall(url, data) ==
    [url |-> url \o "/webhook", json |-> data, timeout |-> PostTimeout,
     content_type |-> "application/json"]

\* requests.post without a timeout: a silent downstream is waited for.
AttemptEndsNoTimeout(b) == b.kind # "silent"

\* Whether requests.post returns or raises at all: with timeout=10 it does,
\* whatever the downstream does.
AttemptEnds(b) == TRUE

PostResponse(code) == [kind |-> "response", status_code |-> code, exc |-> ""]
PostException(e) == [kind |-> "exception", status_code |-> 0, exc |-> e]

\* What requests.post(..., timeout=10) ends in: a response, or a
\* RequestException.
PostOutcome(b) ==
    CASE b.kind = "answers" -> PostResponse(b.status_code)
      [] b.kind = "refuses" -> PostException("ConnectionError")
      [] b.kind = "silent" -> PostException("ReadTimeout")

NoError == [isNone |-> TRUE, parts |-> <<>>]
ErrorText(prefix, detail) == [isNone |-> FALSE, parts |-> <<prefix, detail>>]

\* The delivery with the exception's text not recorded.
DeliveryDropsError(o) ==
    IF o.kind = "response"
    THEN IF o.status_code = 200
         THEN [success |-> TRUE, error |-> NoError]
         ELSE [success |-> FALSE,
               error |-> ErrorText("local server response error: ",
                                   ToString(o.status_code))]
    ELSE [success |-> FALSE, error |-> NoError]

\* The delivery with every 2xx status taken for success.
Delivery2xx(o) ==
    IF o.kind = "response"
    THEN IF o.status_code >= 200 /\ o.status_code < 300
         THEN [success |-> TRUE, error |-> NoError]
         ELSE [success |-> FALSE,
               error |-> ErrorText("local server response error: ",
                                   ToString(o.status_code))]
    ELSE [success |-> FALSE,
          error |-> ErrorText("local server connection failed: ", o.exc)]

\* Lines 70-91: local_success and local_error after the attempt.  The
\* prefixes stand for the source's messages (response error, connection
\* failure).
Delivery(o) ==
    IF o.kind = "response"
    THEN IF o.status_code = 200
         THEN [success |-> TRUE, error |-> NoError]
         ELSE [success |-> FALSE,
               error |-> ErrorText("local server response error: ",
                                   ToString(o.status_code))]
    ELSE [success |-> FALSE,
          error |-> ErrorText("local server connection failed: ", o.exc)]

\* A handler that posts again after an exception.
AfterAttemptRetry(o) == IF o.kind = "exception" THEN "enriched" ELSE "done"

\* Where the handler goes after an attempt that ended in o: lines 82-93
\* fall through to the response, whatever the outcome.
AfterAttempt(o) == "done"

\* Lines 94-106: the acknowledgment.
Acknowledgment(data, delivery, url, t) ==
    [status |-> 200, success |-> TRUE, message |-> "webhook received on heroku",
     timestamp |-> t, data_received |-> data,
     local_delivery |-> [success |-> delivery.success, error |-> delivery.error,
                         target_url |-> url]]

\* Lines 108-114: the answer to any exception of the handler.
ErrorResponse(e) ==
    [status |-> 500, success |-> FALSE, error |-> e,
     message |-> "error while processing webhook"]

\* ------------------------------------------------------------------ state

VARIABLES LOCAL_SERVER_URL, pc, request, client_ip, webhook_data, posts,
          downstream, outcome, response

vars == <<LOCAL_SERVER_URL, pc, request, client_ip, webhook_data, posts,
          downstream, outcome, response>>

NoRequest == [content_type |-> <<>>, forwarded_for |-> <<>>, remote_addr |-> "",
              body |-> <<>>]
Unset == [kind |-> "unset", text |-> "", items |-> <<>>]
NoOutcome == [kind |-> "none", status_code |-> 0, exc |-> ""]
NoDownstream == [kind |-> "none", status_code |-> 0]
NoResponse == [status |-> 0]

\* Line 24: os.environ.get('LOCAL_SERVER_URL', 'http://localhost:8081').
ConfiguredUrl(env) == IF env = "" THEN DefaultUrl ELSE env

Init ==
    /\ \E env \in EnvUrls : LOCAL_SERVER_URL = ConfiguredUrl(env)
    /\ pc = [h \in Handlers |-> "idle"]
    /\ request = [h \in Handlers |-> NoRequest]
    /\ client_ip = [h \in Handlers |-> ""]
    /\ webhook_data = [h \in Handlers |-> Unset]
    /\ posts = [h \in Handlers |-> <<>>]
    /\ downstream = [h \in Handlers |-> NoDownstream]
    /\ outcome = [h \in Handlers |-> NoOutcome]
    /\ response = [h \in Handlers |-> NoResponse]

\* The handler's except clause (lines 108-114): it answers 500.
Fail(h, e) ==
    /\ pc' = [pc EXCEPT ![h] = "done"]
    /\ response' = [response EXCEPT ![h] = ErrorResponse(e)]

\* Receive with client_ip kept in a module-level global, which every
\* handler reads.
ReceiveGlobalIp(h, reqs) ==
    /\ pc[h] = "idle"
    /\ \E req \in reqs :
          /\ request' = [request EXCEPT ![h] = req]
          /\ client_ip' = [g \in Handlers |-> ClientIp(req)]
          /\ LET n == Normalized(req)
             IN  IF n.raised
                 THEN /\ Fail(h, n.exc)
                      /\ UNCHANGED webhook_data
                 ELSE /\ pc' = [pc EXCEPT ![h] = "normalized"]
                      /\ webhook_data' = [webhook_data EXCEPT ![h] = n.value]
                      /\ UNCHANGED response
    /\ UNCHANGED <<LOCAL_SERVER_URL, posts, downstream, outcome>>

\* Lines 39-60: one of the requests reqs arrives at handler h, which reads
\* its headers and normalizes its body.
Receive(h, reqs) ==
    /\ pc[h] = "idle"
    /\ \E req \in reqs :
          /\ request' = [request EXCEPT ![h] = req]
          /\ client_ip' = [client_ip EXCEPT ![h] = ClientIp(req)]
          /\ LET n == Normalized(req)
             IN  IF n.raised
                 THEN /\ Fail(h, n.exc)
                      /\ UNCHANGED webhook_data
                 ELSE /\ pc' = [pc EXCEPT ![h] = "normalized"]
                      /\ webhook_data' = [webhook_data EXCEPT ![h] = n.value]
                      /\ UNCHANGED response
    /\ UNCHANGED <<LOCAL_SERVER_URL, posts, downstream, outcome>>

\* Lines 63-67: enrichment; an item assignment on a value that is no dict
\* raises TypeError.
Enrich(h) ==
    /\ pc[h] = "normalized"
    /\ IF webhook_data[h].kind = "dict"
       THEN /\ \E t \in Times :
                  webhook_data' = [webhook_data EXCEPT ![h] =
                      Dict(Enriched(webhook_data[h].items, t, client_ip[h]))]
            /\ pc' = [pc EXCEPT ![h] = "enriched"]
            /\ UNCHANGED response
       ELSE /\ Fail(h, "TypeError: object does not support item assignment")
            /\ UNCHANGED webhook_data
    /\ UNCHANGED <<LOCAL_SERVER_URL, request, client_ip, posts, downstream,
                   outcome>>

\* Lines 69-80: the POST is sent; the downstream endpoint does with it what
\* it will.
Post(h) ==
    /\ pc[h] = "enriched"
    /\ Len(posts[h]) < MaxPosts
    /\ posts' = [posts EXCEPT ![h] =
                    Append(@, PostCall(LOCAL_SERVER_URL, webhook_data[h]))]
    /\ \E b \in DownstreamBehaviours : downstream' = [downstream EXCEPT ![h] = b]
    /\ pc' = [pc EXCEPT ![h] = "posted"]
    /\ UNCHANGED <<LOCAL_SERVER_URL, request, client_ip, webhook_data, outcome,
                   response>>

\* Lines 82-106: the attempt ends in a response or in an exception; the
\* handler records the delivery and acknowledges.
Complete(h) ==
    /\ pc[h] = "posted"
    /\ AttemptEnds(downstream[h])
    /\ LET o == PostOutcome(downstream[h])
       IN  /\ outcome' = [outcome EXCEPT ![h] = o]
           /\ pc' = [pc EXCEPT ![h] = AfterAttempt(o)]
           /\ \E t \in Times :
                 response' = [response EXCEPT ![h] =
                     IF AfterAttempt(o) = "done"
                     THEN Acknowledgment(webhook_data[h], Delivery(o),
                                         LOCAL_SERVER_URL, t)
                     ELSE @]
    /\ UNCHANGED <<LOCAL_SERVER_URL, request, client_ip, webhook_data, posts,
                   downstream>>

\* The response has gone to the caller; the request's locals are discarded.
Return(h) ==
    /\ pc[h] = "done"
    /\ pc' = [pc EXCEPT ![h] = "idle"]
    /\ request' = [request EXCEPT ![h] = NoRequest]
    /\ client_ip' = [client_ip EXCEPT ![h] = ""]
    /\ webhook_data' = [webhook_data EXCEPT ![h] = Unset]
    /\ posts' = [posts EXCEPT ![h] = <<>>]
    /\ downstream' = [downstream EXCEPT ![h] = NoDownstream]
    /\ outcome' = [outcome EXCEPT ![h] = NoOutcome]
    /\ response' = [response EXCEPT ![h] = NoResponse]
    /\ UNCHANGED LOCAL_SERVER_URL

\* One handler, every body up to MaxLen chunks.
Next ==
    \/ Receive(1, Requests(Bodies))
    \/ Enrich(1)
    \/ Post(1)
    \/ Complete(1)
    \/ Return(1)

Spec == Init /\ [][Next]_vars

Request(ct, ff, body) ==
    [content_type |-> ct, forwarded_for |-> ff, remote_addr |-> RemoteAddr,
     body |-> body]

\* The requests of the concurrent specification: a JSON object, plain text
\* from behind a proxy, malformed JSON and a JSON number.
ConcRequests ==
    {Request(CtJson, NoHeader, <<"{", "\"a\":1", "}">>),
     Request(CtText, <<"203.0.113.7">>, <<"hello world">>),
     Request(CtJson, NoHeader, <<"{">>),
     Request(CtText, <<"203.0.113.7">>, <<"1">>)}

\* Every handler at once, on the requests of ConcRequests.
ConcNext ==
    \E h \in Handlers :
        \/ Receive(h, ConcRequests)
        \/ Enrich(h)
        \/ Post(h)
        \/ Complete(h)
        \/ Return(h)

ConcSpec == Init /\ [][ConcNext]_vars

\* A handler that has a request runs on, and its POST ends within the timeout.
FairSpec ==
    /\ ConcSpec
    /\ \A h \in Handlers :
          WF_vars(Enrich(h)) /\ WF_vars(Post(h)) /\ WF_vars(Complete(h))

\* ------------------------------------------------------------------ claims

EnrichKeys == {"heroku_received_at", "heroku_timestamp", "client_ip"}

Done(h) == pc[h] = "done"
Acked(h) == Done(h) /\ response[h].status = 200
Rejected(h) == Done(h) /\ response[h].status = 500

\* The downstream attempt of handler h ended, and not in a 200.
DeliveryFailed(h) ==
    /\ outcome[h] # NoOutcome
    /\ ~(outcome[h].kind = "response" /\ outcome[h].status_code = 200)

\* C1: a request that was normalized and enriched and whose downstream
\* delivery failed (a status other than 200, a timeout, a connection error)
\* is answered 200 with success true; the failure shows only in
\* local_delivery, whose success is false and whose error is a non-empty text.
C1_DeliveryFailureIsAcknowledged ==
    \A h \in Handlers :
        (Done(h) /\ DeliveryFailed(h)) =>
            /\ response[h].status = 200
            /\ response[h].success = TRUE
            /\ "error" \notin DOMAIN response[h]
            /\ response[h].local_delivery.success = FALSE
            /\ response[h].local_delivery.error.isNone = FALSE
            /\ Text(response[h].local_delivery.error.parts) # ""

C1_Witness ==
    \E h \in Handlers :
        /\ Done(h)
        /\ outcome[h] = PostException("ConnectionError")
        /\ response[h].status = 200
        /\ response[h].local_delivery.success = FALSE

\* C2: a request whose Content-Type contains application/json and whose body
\* is not JSON is answered 500 with success false and an error description;
\* nothing was posted downstream and no local_delivery is reported.
C2_MalformedJsonIsRejected ==
    \A h \in Handlers :
        (Done(h) /\ ContainsJson(request[h].content_type)
                 /\ ~JsonLoads(request[h].body).ok) =>
            /\ response[h].status = 500
            /\ response[h].success = FALSE
            /\ response[h].error # ""
            /\ "local_delivery" \notin DOMAIN response[h]
            /\ posts[h] = <<>>

C2_Witness ==
    \E h \in Handlers :
        /\ Done(h)
        /\ request[h].content_type = CtJson
        /\ request[h].body = <<"{", "\"a\":1">>
        /\ response[h].status = 500

\* C3: normalization always yields a key-value mapping, and the only requests
\* answered 500 are those with malformed JSON under a content type that
\* declares JSON.
C3_NormalizationYieldsMapping ==
    \A h \in Handlers :
        /\ pc[h] = "normalized" => webhook_data[h].kind = "dict"
        /\ Rejected(h) =>
              /\ ContainsJson(request[h].content_type)
              /\ ~JsonLoads(request[h].body).ok

\* The keys of a JSON value: those of an object, none of any other value.
KeysOf(v) == IF v.kind = "dict" THEN DOMAIN v.items ELSE {}

\* C4: a valid JSON body under a JSON content type is echoed in data_received
\* with every original key and exactly the three enrichment fields besides.
C4_EchoIsOriginalKeysPlusThree ==
    \A h \in Handlers :
        (Done(h) /\ IsJson(request[h].content_type)
                 /\ JsonLoads(request[h].body).ok) =>
            /\ response[h].status = 200
            /\ DOMAIN response[h].data_received.items =
                  KeysOf(JsonLoads(request[h].body).value) \cup EnrichKeys

\* What C5 says a body normalizes to when the content type is not JSON: the
\* form fields if there is one, else the raw text's JSON value if it has one,
\* else the raw text under "message".
ClaimedChain(req) ==
    LET fields == FormFields(req.body)
        loaded == JsonLoads(req.body)
    IN  IF req.content_type = CtForm /\ fields # <<>>
        THEN Dict(FirstValues(fields))
        ELSE IF loaded.ok THEN loaded.value
        ELSE Dict(SetItem(EmptyItems, "message", String(Text(req.body))))

\* C5: when the content type is not JSON, normalization is the ordered
\* chain form fields, raw text as JSON, raw text T wrapped as {"message": T}.
C5_FallbackChain ==
    \A h \in Handlers :
        (pc[h] = "normalized" /\ ~ContainsJson(request[h].content_type)) =>
            webhook_data[h] = ClaimedChain(request[h])

\* C6: in an acknowledgment, local_delivery.success is true exactly when the
\* downstream answered 200, local_delivery.error is None exactly when success
\* is true, and any other status gives an error that includes the status code.
C6_DeliveryFlagsMatchStatus ==
    \A h \in Handlers :
        Acked(h) =>
            LET ld == response[h].local_delivery
                o == outcome[h]
            IN  /\ ld.success = (o.kind = "response" /\ o.status_code = 200)
                /\ ld.error.isNone = ld.success
                /\ (o.kind = "response" /\ o.status_code # 200) =>
                      \E i \in 1..Len(ld.error.parts) :
                          ld.error.parts[i] = ToString(o.status_code)

C6_Witness ==
    \E h \in Handlers :
        /\ Acked(h)
        /\ outcome[h] = PostResponse(201)
        /\ response[h].local_delivery.success = FALSE

\* C7: a request causes at most one POST to LOCAL_SERVER_URL/webhook: exactly
\* one once it was normalized and enriched, whatever the attempt's outcome,
\* and none when it is answered 500.
C7_AtMostOnePost ==
    \A h \in Handlers :
        /\ Len(posts[h]) <= 1
        /\ (pc[h] = "posted" \/ Acked(h)) =>
              /\ Len(posts[h]) = 1
              /\ posts[h][1].url = LOCAL_SERVER_URL \o "/webhook"
        /\ (pc[h] \in {"idle", "normalized", "enriched"} \/ Rejected(h)) =>
              posts[h] = <<>>

C7_Witness ==
    \E h \in Handlers :
        /\ Acked(h)
        /\ outcome[h] = PostException("ReadTimeout")
        /\ Len(posts[h]) = 1

\* C8: every request a handler has taken up is eventually answered; a
\* forward attempt in flight ends, a silent downstream in a timeout.
C8_EveryRequestIsAnswered ==
    \A h \in Handlers :
        (pc[h] \in {"normalized", "enriched", "posted"}) ~> Done(h)

C8_Witness ==
    \E h \in Handlers :
        /\ Acked(h)
        /\ downstream[h] = Silent
        /\ response[h].local_delivery.success = FALSE

\* The acknowledgment of a request by its own headers, body and downstream
\* outcome alone.
OwnAcknowledgment(req, o, url, t) ==
    LET n == Normalized(req)
    IN  IF n.raised THEN ErrorResponse(n.exc)
        ELSE IF n.value.kind # "dict"
        THEN ErrorResponse("TypeError: object does not support item assignment")
        ELSE Acknowledgment(Dict(Enriched(n.value.items, t, ClientIp(req))),
                            Delivery(o), url, t)

Locals(h) ==
    <<pc[h], request[h], client_ip[h], webhook_data[h], posts[h], downstream[h],
      outcome[h], response[h]>>

LocalsNext(h) ==
    <<pc'[h], request'[h], client_ip'[h], webhook_data'[h], posts'[h],
      downstream'[h], outcome'[h], response'[h]>>

\* C9: concurrent handlers are independent: no step writes LOCAL_SERVER_URL, a
\* step of one handler leaves every other handler's request state alone, and
\* each acknowledgment is that of the request's own headers, body and
\* downstream outcome.
C9_HandlersAreIndependent ==
    [][/\ LOCAL_SERVER_URL' = LOCAL_SERVER_URL
       /\ \A g, h \in Handlers :
             g # h => (LocalsNext(g) = Locals(g) \/ LocalsNext(h) = Locals(h))
       /\ \A h \in Handlers :
             pc'[h] = "done" =>
                 \E t \in Times :
                     response'[h] = OwnAcknowledgment(request'[h], outcome'[h],
                                                      LOCAL_SERVER_URL', t)]_vars

C9_Witness ==
    \E g, h \in Handlers :
        /\ g # h
        /\ Acked(g)
        /\ Acked(h)
        /\ client_ip[g] # client_ip[h]
        /\ response[g].data_received # response[h].data_received

\* The mapping the sender supplied: the normalized body before enrichment.
Supplied(req) == Normalized(req).value.items

\* C10 as claimed: every key/value pair the sender supplied is unchanged in
\* the payload posted downstream and in data_received, also under a key named
\* like an enrichment field.
C10_EveryPairPreserved ==
    \A h \in Handlers :
        Acked(h) =>
            \A k \in DOMAIN Supplied(request[h]) :
                /\ posts[h][1].json.items[k] = Supplied(request[h])[k]
                /\ response[h].data_received.items[k] = Supplied(request[h])[k]

\* C10 as amended: every supplied pair whose key is not heroku_received_at,
\* heroku_timestamp or client_ip is unchanged in the payload posted downstream
\* and in data_received; under those three keys both carry the enrichment
\* values, which replace whatever the sender supplied there.
C10_OtherPairsPreserved ==
    \A h \in Handlers :
        Acked(h) =>
            LET sent == posts[h][1].json.items
                echoed == response[h].data_received.items
            IN  /\ \A k \in (DOMAIN Supplied(request[h])) \ EnrichKeys :
                      /\ k \in DOMAIN sent
                      /\ k \in DOMAIN echoed
                      /\ sent[k] = Supplied(request[h])[k]
                      /\ echoed[k] = Supplied(request[h])[k]
                /\ sent = echoed
                /\ EnrichKeys \subseteq DOMAIN echoed
                /\ echoed["client_ip"] = String(ClientIp(request[h]))
                /\ \E t \in Times :
                      /\ echoed["heroku_received_at"] = Number(t)
                      /\ echoed["heroku_timestamp"] = String(StrfTime(t))

C10_Witness ==
    \E h \in Handlers :
        /\ Acked(h)
        /\ request[h].body = <<"{", "\"client_ip\":1", "}">>
        /\ Supplied(request[h])["client_ip"] = Number("1")
        /\ response[h].data_received.items["client_ip"] = String(RemoteAddr)

====
